---- MODULE Spec2Model ----
(***************************************************************************)
(* Model of the rule-based Japanese dependency parser (src/parser.js).     *)
(*                                                                         *)
(* Japanese text cannot be written in a TLA+ string, so every character is *)
(* named by its reading ("ha" is the kana written for the topic particle,  *)
(* "maru" the full stop) and a JavaScript string is the sequence of its    *)
(* characters: '' is <<>> and join('') is sequence concatenation.          *)
(* Part-of-speech tags are named by their reading too:                     *)
(*   meishi noun, doushi verb, keiyoushi adjective, fukushi adverb,        *)
(*   rentaishi pre-noun-adjectival, kandoushi interjection, joshi          *)
(*   particle, jodoushi auxiliary verb, setsuzokushi conjunction,          *)
(*   kigou symbol, jiritsu independent, hijiritsu non-independent.         *)
(* Array indices, bunsetsu ids and edge ends are 0-based as in the code;   *)
(* a sequence s is read at s[k + 1].                                       *)
(***************************************************************************)
EXTENDS Naturals, Integers, Sequences, FiniteSets, TLC

\* Longest morpheme sequence the tokenizer returns in the model.
MaxLen == 4
\* Most dictionary builds in flight at the same time.
MaxBuilds == 2
\* Longest run of nouns or of verbs in a sentence of the scenario form.
MaxRun == 2
\* Most phrases behind the first phrases of a sentence built from phrases.
MaxFollow == 3
\* Most bunsetsu and most edges handed to buildHierarchy on its own.
MaxNodes == 3
MaxEdges == 3
\* Most dictionary builds started on one parser where the builds are counted.
MaxStarts == 3
\* Most handleAnalyze invocations waiting for their timer at the same time.
MaxAnalyses == 2

VARIABLES
    text,         \* the argument of parse, as the morphemes the tokenizer reads in it
    tokenizer,    \* this.tokenizer: "null" or "tokenizer"
    initialized,  \* this.initialized
    pending,      \* build callbacks that kuromoji has not yet called
    resolved,     \* TRUE once an initialize() promise was resolved
    result,       \* outcome of the last parse call
    hierarchy,    \* the last buildHierarchy call: its arguments, then its return value
    builds,       \* history: builds started and tokenizer assignments so far
    app           \* app.js: currentParseResult, the page and the handlers in progress

vars == <<text, tokenizer, initialized, pending, resolved, result, hierarchy,
          builds, app>>

(***************************************************************************)
(* Morphemes of the model: one or two per part-of-speech class the code    *)
(* distinguishes.                                                          *)
(***************************************************************************)
Morph(s, p, d, b) ==
    [surface_form |-> s, pos |-> p, pos_detail_1 |-> d, basic_form |-> b]

Neko       == Morph(<<"neko">>, "meishi", "ippan", <<"neko">>)
Miru       == Morph(<<"mi", "ru">>, "doushi", "jiritsu", <<"mi", "ru">>)
Iru        == Morph(<<"i", "ru">>, "doushi", "hijiritsu", <<"i", "ru">>)
Utsukushii == Morph(<<"utsukushi", "i">>, "keiyoushi", "jiritsu", <<"utsukushi", "i">>)
Yukkuri    == Morph(<<"yu", "tsu", "ku", "ri">>, "fukushi", "ippan", <<"yu", "tsu", "ku", "ri">>)
Kono       == Morph(<<"ko", "no">>, "rentaishi", "*", <<"ko", "no">>)
Ha         == Morph(<<"ha">>, "joshi", "kakarijoshi", <<"ha">>)
No         == Morph(<<"no">>, "joshi", "rentaika", <<"no">>)
Te         == Morph(<<"te">>, "joshi", "setsuzokujoshi", <<"te">>)
Ta         == Morph(<<"ta">>, "jodoushi", "*", <<"ta">>)
Maru       == Morph(<<"maru">>, "kigou", "kuten", <<"maru">>)
Hana       == Morph(<<"hana">>, "meishi", "ippan", <<"hana">>)
Ni         == Morph(<<"ni">>, "joshi", "kakujoshi", <<"ni">>)
Wo         == Morph(<<"wo">>, "joshi", "kakujoshi", <<"wo">>)
Ga         == Morph(<<"ga">>, "joshi", "kakujoshi", <<"ga">>)
Kara       == Morph(<<"ka", "ra">>, "joshi", "kakujoshi", <<"ka", "ra">>)
Mo         == Morph(<<"mo">>, "joshi", "kakarijoshi", <<"mo">>)
Deshi      == Morph(<<"de", "shi">>, "jodoushi", "*", <<"de", "su">>)
Nai        == Morph(<<"na", "i">>, "jodoushi", "*", <<"na", "i">>)
Aa         == Morph(<<"a", "a">>, "kandoushi", "*", <<"a", "a">>)
Shikashi   == Morph(<<"shi", "ka", "shi">>, "setsuzokushi", "*", <<"shi", "ka", "shi">>)
O          == Morph(<<"o">>, "settoushi", "meishisetsuzoku", <<"o">>)
De         == Morph(<<"de">>, "joshi", "kakujoshi", <<"de">>)
ToP        == Morph(<<"to">>, "joshi", "kakujoshi", <<"to">>)
He         == Morph(<<"he">>, "joshi", "kakujoshi", <<"he">>)
Made       == Morph(<<"ma", "de">>, "joshi", "fukujoshi", <<"ma", "de">>)
Yori       == Morph(<<"yo", "ri">>, "joshi", "kakujoshi", <<"yo", "ri">>)
Ba         == Morph(<<"ba">>, "joshi", "setsuzokujoshi", <<"ba">>)
Temo       == Morph(<<"te", "mo">>, "joshi", "setsuzokujoshi", <<"te", "mo">>)
Demo       == Morph(<<"de", "mo">>, "joshi", "fukujoshi", <<"de", "mo">>)
Node       == Morph(<<"no", "de">>, "joshi", "setsuzokujoshi", <<"no", "de">>)
Noni       == Morph(<<"no", "ni">>, "joshi", "setsuzokujoshi", <<"no", "ni">>)
Kedo       == Morph(<<"ke", "do">>, "joshi", "setsuzokujoshi", <<"ke", "do">>)
Da         == Morph(<<"da">>, "jodoushi", "*", <<"da">>)
Mashi      == Morph(<<"ma", "shi">>, "jodoushi", "*", <<"ma", "su">>)

Morphemes == {Neko, Miru, Iru, Utsukushii, Yukkuri, Kono, Ha, No, Te, Ta, Maru}

RECURSIVE SeqsUpTo(_, _)
SeqsUpTo(S, n) ==
    IF n = 0 THEN {<<>>}
    ELSE LET shorter == SeqsUpTo(S, n - 1)
         IN  shorter \cup {Append(s, m) : s \in {t \in shorter : Len(t) = n - 1}, m \in S}

Texts == SeqsUpTo(Morphemes, MaxLen)

\* One morpheme of every part of speech the segmenter tells apart, and one
\* (the prefix o) of a part of speech in neither of its lists.
PosMorphemes ==
    {Neko, Miru, Utsukushii, Yukkuri, Kono, Aa, Ha, Ta, Shikashi, Maru, O}
PosTexts == SeqsUpTo(PosMorphemes, MaxLen)

\* Sentences NOUN+ ha NOUN+ ni NOUN+ wo VERB+ maru.
NounRuns == SeqsUpTo({Neko, Hana}, MaxRun) \ {<<>>}
VerbRuns == SeqsUpTo({Miru, Iru}, MaxRun) \ {<<>>}
ScenarioTexts ==
    {n1 \o <<Ha>> \o n2 \o <<Ni>> \o n3 \o <<Wo>> \o v \o <<Maru>> :
        n1 \in NounRuns, n2 \in NounRuns, n3 \in NounRuns, v \in VerbRuns}

\* Sentences built from phrases, a content word and what follows it: at most
\* one leading phrase, a phrase with any ending, and phrases ending in mo.
Endings ==
    {<<>>, <<Ha>>, <<Ga>>, <<Kara>>, <<No>>, <<Te>>, <<Mo>>,
     <<Ta>>, <<Deshi>>, <<Nai>>, <<Maru>>,
     <<Wo>>, <<Ni>>, <<He>>, <<De>>, <<Made>>, <<Yori>>, <<ToP>>,
     <<Ba>>, <<Temo>>, <<Demo>>, <<Node>>, <<Noni>>, <<Kedo>>,
     <<Da>>, <<Mashi>>}
AnyPhrases ==
    {<<c>> \o e : c \in {Neko, Miru, Iru, Utsukushii, Yukkuri, Kono}, e \in Endings}
MoPhrases == {<<c, Mo>> : c \in {Neko, Miru, Utsukushii, Yukkuri}}
LeadPhrases == {<<>>, <<Neko, Mo>>, <<Utsukushii, Mo>>}
RECURSIVE PhraseSeqs(_)
PhraseSeqs(n) ==
    IF n = 0 THEN {<<>>}
    ELSE {<<>>} \cup {p \o t : p \in MoPhrases, t \in PhraseSeqs(n - 1)}
RuleTexts ==
    {l \o p \o f : l \in LeadPhrases, p \in AnyPhrases, f \in PhraseSeqs(MaxFollow)}

\* this.tokenizer.tokenize(text): one fresh token object per morpheme, in
\* text order.  ref stands for the identity of the JavaScript object.
tokenize(t) ==
    [k \in 1..Len(t) |->
        [surface_form |-> t[k].surface_form, pos |-> t[k].pos,
         pos_detail_1 |-> t[k].pos_detail_1, basic_form |-> t[k].basic_form,
         ref |-> k - 1]]

(***************************************************************************)
(* Segmenter                                                               *)
(***************************************************************************)
isContentWord(token) ==
    token.pos \in {"meishi", "doushi", "keiyoushi", "fukushi", "rentaishi", "kandoushi"}

\* Variant: the conjunction is missing from the list.
isFunctionWord_noConjunction(token) ==
    token.pos \in {"joshi", "jodoushi"}

isFunctionWord(token) ==
    token.pos \in {"joshi", "jodoushi", "setsuzokushi"}

\* priorities[pos] || 0
priorities(pos) ==
    CASE pos = "doushi"    -> 3
      [] pos = "keiyoushi" -> 2
      [] pos = "meishi"    -> 1
      [] OTHER             -> 0

\* for (const token of tokens): k is the 0-based position of the scan.
RECURSIVE findHeadLoop(_, _, _, _)
findHeadLoop(tokens, k, head, maxPriority) ==
    IF k >= Len(tokens) THEN head
    ELSE LET token    == tokens[k + 1]
             priority == priorities(token.pos)
         IN  IF priority > maxPriority
             THEN findHeadLoop(tokens, k + 1, token, priority)
             ELSE findHeadLoop(tokens, k + 1, head, maxPriority)

\* Variant: a later token replaces the head on an equal score too.
RECURSIVE findHeadLoop_ge(_, _, _, _)
findHeadLoop_ge(tokens, k, head, maxPriority) ==
    IF k >= Len(tokens) THEN head
    ELSE LET token    == tokens[k + 1]
             priority == priorities(token.pos)
         IN  IF priority >= maxPriority
             THEN findHeadLoop_ge(tokens, k + 1, token, priority)
             ELSE findHeadLoop_ge(tokens, k + 1, head, maxPriority)

findHead_lastMax(tokens) ==
    findHeadLoop_ge(tokens, 0, tokens[1], priorities(tokens[1].pos))

findHead(tokens) ==
    findHeadLoop(tokens, 0, tokens[1], priorities(tokens[1].pos))

\* currentBunsetsu.map(t => t.surface_form).join('')
RECURSIVE joinSurfaces(_)
joinSurfaces(tokens) ==
    IF tokens = <<>> THEN <<>>
    ELSE Head(tokens).surface_form \o joinSurfaces(Tail(tokens))

\* Variant: ids count from 1.
newBunsetsu_oneBased(bunsetsuList, currentBunsetsu) ==
    [id      |-> Len(bunsetsuList) + 1,
     tokens  |-> currentBunsetsu,
     surface |-> joinSurfaces(currentBunsetsu),
     head    |-> findHead(currentBunsetsu)]

\* The object pushed on bunsetsuList when a run is closed.
newBunsetsu(bunsetsuList, currentBunsetsu) ==
    [id      |-> Len(bunsetsuList),
     tokens  |-> currentBunsetsu,
     surface |-> joinSurfaces(currentBunsetsu),
     head    |-> findHead(currentBunsetsu)]

\* Variant: the last token does not close the run.
shouldEndBunsetsu_noLast(tokens, i) ==
    LET token         == tokens[i + 1]
        isPunctuation == token.pos = "kigou"
    IN  IF ~isPunctuation /\ i < Len(tokens) - 1
        THEN isFunctionWord(token) /\ isContentWord(tokens[i + 2])
        ELSE isPunctuation

shouldEndBunsetsu(tokens, i) ==
    LET token         == tokens[i + 1]
        isLastToken   == i = Len(tokens) - 1
        isPunctuation == token.pos = "kigou"
    IN  IF ~(isLastToken \/ isPunctuation) /\ i < Len(tokens) - 1
        THEN isFunctionWord(token) /\ isContentWord(tokens[i + 2])
        ELSE isLastToken \/ isPunctuation

\* The for loop of groupIntoBunsetsu, from index i on.
RECURSIVE groupLoop(_, _, _, _)
groupLoop(tokens, i, bunsetsuList, currentBunsetsu) ==
    IF ~(i < Len(tokens)) THEN bunsetsuList
    ELSE LET pushed == Append(currentBunsetsu, tokens[i + 1])
         IN  IF shouldEndBunsetsu(tokens, i) /\ Len(pushed) > 0
             THEN groupLoop(tokens, i + 1,
                            Append(bunsetsuList, newBunsetsu(bunsetsuList, pushed)),
                            <<>>)
             ELSE groupLoop(tokens, i + 1, bunsetsuList, pushed)

groupIntoBunsetsu(tokens) == groupLoop(tokens, 0, <<>>, <<>>)

(***************************************************************************)
(* Estimator                                                               *)
(***************************************************************************)
ClauseParticles ==
    {<<"te">>, <<"de">>, <<"ba">>, <<"to">>, <<"te", "mo">>, <<"de", "mo">>,
     <<"ka", "ra">>, <<"no", "de">>, <<"no", "ni">>, <<"ke", "do">>, <<"ga">>}

ClauseAuxiliaries == {<<"ta">>, <<"da">>, <<"de", "su">>, <<"ma", "su">>}

\* Variant: ni is missing from the list.
CaseParticles_noNi ==
    {<<"ha">>, <<"ga">>, <<"wo">>, <<"he">>, <<"de">>,
     <<"ka", "ra">>, <<"ma", "de">>, <<"yo", "ri">>, <<"to">>}

CaseParticles ==
    {<<"ha">>, <<"ga">>, <<"wo">>, <<"ni">>, <<"he">>, <<"de">>,
     <<"ka", "ra">>, <<"ma", "de">>, <<"yo", "ri">>, <<"to">>}

\* The character class of the pattern tested on the last surface in rule 5.
ContinuativeChars == {"te", "de", "ta", "ri", "na", "ga", "ra"}

\* Variant: the auxiliary verb is looked up by its surface form.
isClauseConnector_bySurface(token) ==
    IF token.pos = "joshi" THEN token.surface_form \in ClauseParticles
    ELSE IF token.pos = "jodoushi" THEN token.surface_form \in ClauseAuxiliaries
    ELSE FALSE

isClauseConnector(token) ==
    IF token.pos = "joshi" THEN token.surface_form \in ClauseParticles
    ELSE IF token.pos = "jodoushi" THEN token.basic_form \in ClauseAuxiliaries
    ELSE FALSE

RECURSIVE findNextVerbLoop(_, _)
findNextVerbLoop(j, bunsetsuList) ==
    IF ~(j < Len(bunsetsuList)) THEN Len(bunsetsuList) - 1
    ELSE IF bunsetsuList[j + 1].head.pos = "doushi" THEN j
    ELSE findNextVerbLoop(j + 1, bunsetsuList)

\* Variant: the fallback is the length of the list, one past its last index.
findNextVerb_pastEnd(fromIndex, bunsetsuList) ==
    LET found == findNextVerbLoop(fromIndex + 1, bunsetsuList)
    IN  IF bunsetsuList[found + 1].head.pos = "doushi" /\ found > fromIndex
        THEN found
        ELSE Len(bunsetsuList)

findNextVerb(fromIndex, bunsetsuList) == findNextVerbLoop(fromIndex + 1, bunsetsuList)

RECURSIVE findNextNounLoop(_, _, _)
findNextNounLoop(j, fromIndex, bunsetsuList) ==
    IF ~(j < Len(bunsetsuList)) THEN fromIndex + 1
    ELSE IF bunsetsuList[j + 1].head.pos = "meishi" THEN j
    ELSE findNextNounLoop(j + 1, fromIndex, bunsetsuList)

\* Variant: the fallback is the last bunsetsu, as in findNextVerb.
findNextNoun_lastFallback(fromIndex, bunsetsuList) ==
    LET found == findNextNounLoop(fromIndex + 1, fromIndex, bunsetsuList)
    IN  IF bunsetsuList[found + 1].head.pos = "meishi" THEN found
        ELSE Len(bunsetsuList) - 1

findNextNoun(fromIndex, bunsetsuList) ==
    findNextNounLoop(fromIndex + 1, fromIndex, bunsetsuList)

RECURSIVE findNextPredicateLoop(_, _)
findNextPredicateLoop(j, bunsetsuList) ==
    IF ~(j < Len(bunsetsuList)) THEN Len(bunsetsuList) - 1
    ELSE IF bunsetsuList[j + 1].head.pos \in {"doushi", "keiyoushi"} THEN j
    ELSE findNextPredicateLoop(j + 1, bunsetsuList)

\* Variant: the scan starts at the source itself.
findNextPredicate_fromSelf(fromIndex, bunsetsuList) ==
    findNextPredicateLoop(fromIndex, bunsetsuList)

findNextPredicate(fromIndex, bunsetsuList) ==
    findNextPredicateLoop(fromIndex + 1, bunsetsuList)

\* Variant: the scan of rule 4 stops at nouns only.
RECURSIVE nextNounOrVerbLoop_nounOnly(_, _)
nextNounOrVerbLoop_nounOnly(j, bunsetsuList) ==
    IF ~(j < Len(bunsetsuList)) THEN -1
    ELSE IF bunsetsuList[j + 1].head.pos = "meishi" THEN j
    ELSE nextNounOrVerbLoop_nounOnly(j + 1, bunsetsuList)

\* The scan of rule 4; -1 when it ends without a return.
RECURSIVE nextNounOrVerbLoop(_, _)
nextNounOrVerbLoop(j, bunsetsuList) ==
    IF ~(j < Len(bunsetsuList)) THEN -1
    ELSE IF bunsetsuList[j + 1].head.pos \in {"meishi", "doushi"} THEN j
    ELSE nextNounOrVerbLoop(j + 1, bunsetsuList)

\* lastToken.surface_form.match(/[...]/): some character of the class occurs.
matchesContinuative(surface) ==
    \E k \in 1..Len(surface) : surface[k] \in ContinuativeChars

\* Variant: the case particles are tested before the clause connectors.
targetRule_caseFirst(source, sourceIndex, bunsetsuList) ==
    LET lastToken  == source.tokens[Len(source.tokens)]
        sourceHead == source.head
        particle   == lastToken.surface_form
    IN  IF lastToken.pos = "joshi" /\ particle \in CaseParticles THEN "case"
        ELSE IF isClauseConnector(lastToken) THEN "connector"
        ELSE IF lastToken.pos = "joshi" /\ particle = <<"no">> THEN "no"
        ELSE IF sourceHead.pos = "fukushi" THEN "adverb"
        ELSE IF sourceHead.pos = "rentaishi" THEN "adnominal"
        ELSE IF /\ sourceHead.pos = "meishi"
                /\ lastToken.pos # "joshi"
                /\ nextNounOrVerbLoop(sourceIndex + 1, bunsetsuList) # -1 THEN "noun"
        ELSE IF /\ sourceHead.pos = "doushi"
                /\ \/ sourceHead.pos_detail_1 # "jiritsu"
                   \/ matchesContinuative(lastToken.surface_form) THEN "verb"
        ELSE "default"

\* Which return statement of findDependencyTarget is taken.
targetRule(source, sourceIndex, bunsetsuList) ==
    LET lastToken  == source.tokens[Len(source.tokens)]
        sourceHead == source.head
        particle   == lastToken.surface_form
    IN  IF isClauseConnector(lastToken) THEN "connector"
        ELSE IF lastToken.pos = "joshi" /\ particle \in CaseParticles THEN "case"
        ELSE IF lastToken.pos = "joshi" /\ particle = <<"no">> THEN "no"
        ELSE IF sourceHead.pos = "fukushi" THEN "adverb"
        ELSE IF sourceHead.pos = "rentaishi" THEN "adnominal"
        ELSE IF /\ sourceHead.pos = "meishi"
                /\ lastToken.pos # "joshi"
                /\ nextNounOrVerbLoop(sourceIndex + 1, bunsetsuList) # -1 THEN "noun"
        ELSE IF /\ sourceHead.pos = "doushi"
                /\ \/ sourceHead.pos_detail_1 # "jiritsu"
                   \/ matchesContinuative(lastToken.surface_form) THEN "verb"
        ELSE "default"

\* Variant: the adverb looks for a noun and the adnominal for a predicate.
findDependencyTarget_swapped(source, sourceIndex, bunsetsuList) ==
    LET rule == targetRule(source, sourceIndex, bunsetsuList)
    IN  CASE rule = "connector" -> findNextPredicate(sourceIndex, bunsetsuList)
          [] rule = "case"      -> findNextVerb(sourceIndex, bunsetsuList)
          [] rule = "no"        -> findNextNoun(sourceIndex, bunsetsuList)
          [] rule = "adverb"    -> findNextNoun(sourceIndex, bunsetsuList)
          [] rule = "adnominal" -> findNextPredicate(sourceIndex, bunsetsuList)
          [] rule = "noun"      -> nextNounOrVerbLoop(sourceIndex + 1, bunsetsuList)
          [] rule = "verb"      -> findNextPredicate(sourceIndex, bunsetsuList)
          [] OTHER              -> sourceIndex + 1

findDependencyTarget(source, sourceIndex, bunsetsuList) ==
    LET rule == targetRule(source, sourceIndex, bunsetsuList)
    IN  CASE rule = "connector" -> findNextPredicate(sourceIndex, bunsetsuList)
          [] rule = "case"      -> findNextVerb(sourceIndex, bunsetsuList)
          [] rule = "no"        -> findNextNoun(sourceIndex, bunsetsuList)
          [] rule = "adverb"    -> findNextPredicate(sourceIndex, bunsetsuList)
          [] rule = "adnominal" -> findNextNoun(sourceIndex, bunsetsuList)
          [] rule = "noun"      -> nextNounOrVerbLoop(sourceIndex + 1, bunsetsuList)
          [] rule = "verb"      -> findNextPredicate(sourceIndex, bunsetsuList)
          [] OTHER              -> sourceIndex + 1

\* Variant: the label is read from the target bunsetsu.
getDependencyLabel_ofTarget(source, target) ==
    LET lastToken == target.tokens[Len(target.tokens)]
    IN  IF lastToken.pos = "joshi" THEN lastToken.surface_form ELSE <<>>

getDependencyLabel(source, target) ==
    LET lastToken == source.tokens[Len(source.tokens)]
    IN  IF lastToken.pos = "joshi" THEN lastToken.surface_form ELSE <<>>

\* The for loop of estimateDependencies, from index i on.
RECURSIVE estimateLoop(_, _, _)
estimateLoop(bunsetsuList, i, dependencies) ==
    IF ~(i < Len(bunsetsuList) - 1) THEN dependencies
    ELSE LET source      == bunsetsuList[i + 1]
             targetIndex == findDependencyTarget(source, i, bunsetsuList)
         IN  estimateLoop(bunsetsuList, i + 1,
                          Append(dependencies,
                                 [from  |-> i,
                                  to    |-> targetIndex,
                                  label |-> getDependencyLabel(source, bunsetsuList[targetIndex + 1])]))

\* Variant: the loop starts at index 1.
estimateDependencies_skipFirst(bunsetsuList) == estimateLoop(bunsetsuList, 1, <<>>)

estimateDependencies(bunsetsuList) == estimateLoop(bunsetsuList, 0, <<>>)

(***************************************************************************)
(* DependencyParser object                                                 *)
(***************************************************************************)
NoResult == [status |-> "none", tokenized |-> FALSE,
             bunsetsu |-> <<>>, dependencies |-> <<>>, tokens |-> <<>>]

NotInitializedError == [status |-> "Parser not initialized", tokenized |-> FALSE,
                        bunsetsu |-> <<>>, dependencies |-> <<>>, tokens |-> <<>>]

\* Variant: an empty token list is refused.
parseResult_rejectEmpty(tokens) ==
    LET bunsetsuList == groupIntoBunsetsu(tokens)
    IN  [status |-> IF tokens = <<>> THEN "Empty input" ELSE "ok",
         tokenized |-> TRUE,
         bunsetsu |-> bunsetsuList,
         dependencies |-> estimateDependencies(bunsetsuList),
         tokens |-> tokens]

\* The return value of parse; tokenized records that tokenize was called.
parseResult(tokens) ==
    LET bunsetsuList == groupIntoBunsetsu(tokens)
    IN  [status |-> "ok", tokenized |-> TRUE,
         bunsetsu |-> bunsetsuList,
         dependencies |-> estimateDependencies(bunsetsuList),
         tokens |-> tokens]

(***************************************************************************)
(* DependencyVisualizer (src/visualizer.js)                                *)
(***************************************************************************)
\* No buildHierarchy call yet.
NoHierarchy == [status |-> "none"]

\* Variant: the edge hangs its to end under its from end.
RECURSIVE nodeChildren_underFrom(_, _)
nodeChildren_underFrom(dependencies, i) ==
    IF dependencies = <<>> THEN <<>>
    ELSE (IF Head(dependencies).from = i THEN <<Head(dependencies).to>> ELSE <<>>)
         \o nodeChildren_underFrom(Tail(dependencies), i)

\* nodes[i].children after the forEach over dependencies: the from ends of
\* the edges into i, in edge order.  A child is named by its node id.
RECURSIVE nodeChildren(_, _)
nodeChildren(dependencies, i) ==
    IF dependencies = <<>> THEN <<>>
    ELSE (IF Head(dependencies).to = i THEN <<Head(dependencies).from>> ELSE <<>>)
         \o nodeChildren(Tail(dependencies), i)

\* nodes[i] once the children are attached; undefined beyond the array.
hierarchyNode(bunsetsu, dependencies, i) ==
    IF i < Len(bunsetsu)
    THEN [defined |-> TRUE, id |-> i, bunsetsu |-> bunsetsu[i + 1],
          children |-> nodeChildren(dependencies, i)]
    ELSE [defined |-> FALSE]

\* Variant: the ids that are the to end of some edge.
parentIds_byTo(dependencies) ==
    {dependencies[k].to : k \in 1..Len(dependencies)}

\* new Set(dependencies.map(d => d.from))
parentIds(dependencies) ==
    {dependencies[k].from : k \in 1..Len(dependencies)}

\* nodes.filter((n, i) => !parentIds.has(i)), as node ids from index i on.
RECURSIVE rootsFrom(_, _, _)
rootsFrom(bunsetsu, dependencies, i) ==
    IF ~(i < Len(bunsetsu)) THEN <<>>
    ELSE (IF i \notin parentIds(dependencies) THEN <<i>> ELSE <<>>)
         \o rootsFrom(bunsetsu, dependencies, i + 1)

buildHierarchy(bunsetsu, dependencies) ==
    LET roots == rootsFrom(bunsetsu, dependencies, 0)
    IN  IF Len(roots) > 1
        THEN [defined |-> TRUE, id |-> -1,
              bunsetsu |-> [surface |-> <<"R", "O", "O", "T">>],
              children |-> roots]
        ELSE IF Len(roots) = 1
        THEN hierarchyNode(bunsetsu, dependencies, roots[1])
        ELSE hierarchyNode(bunsetsu, dependencies, 0)

\* A finished buildHierarchy call: arguments, node array, returned object.
builtHierarchy(bunsetsu, dependencies) ==
    [status       |-> "built",
     bunsetsu     |-> bunsetsu,
     dependencies |-> dependencies,
     nodes        |-> [i \in 0..(Len(bunsetsu) - 1) |->
                          hierarchyNode(bunsetsu, dependencies, i)],
     root         |-> buildHierarchy(bunsetsu, dependencies)]

\* Arguments of buildHierarchy called on its own: n bunsetsu and any list of
\* edges between them.
NodeLists ==
    {[k \in 1..n |-> [id |-> k - 1, surface |-> <<"neko">>]] : n \in 0..MaxNodes}
EdgeLists(n) ==
    SeqsUpTo({[from |-> f, to |-> t, label |-> <<>>] :
                 f \in 0..(n - 1), t \in 0..(n - 1)}, MaxEdges)
HierarchyArgs ==
    {[status |-> "args", bunsetsu |-> b, dependencies |-> d] :
        b \in NodeLists, d \in EdgeLists(MaxNodes)}

\* constructor
\* The history of a parser whose builds are not counted, and of one whose
\* builds are counted from its construction on.
NotCounted == [on |-> FALSE, started |-> 0, assigned |-> 0]
Counted    == [on |-> TRUE, started |-> 0, assigned |-> 0]

\* kuromoji.builder(...).build(...) was called once more.
countStarted(b) == IF b.on THEN [b EXCEPT !.started = @ + 1] ELSE b

\* this.tokenizer = tokenizer was executed once more.
countAssigned(b) == IF b.on THEN [b EXCEPT !.assigned = @ + 1] ELSE b

\* currentParseResult = null
NullResult == [status |-> "null"]

\* The page before initializeApp has run: no listener, no analysis in
\* progress, the export buttons and the chart selector not yet shown.
AppNotStarted ==
    [phase              |-> "not started",
     listeners          |-> FALSE,
     overlay            |-> FALSE,
     currentParseResult |-> NullResult,
     exportButtons      |-> "hidden",
     chartSelector      |-> "hidden",
     chartType          |-> "tree",
     analyses           |-> <<>>,
     last               |-> "none"]

Constructed ==
    /\ builds = NotCounted
    /\ app = AppNotStarted
    /\ tokenizer = "null"
    /\ initialized = FALSE
    /\ pending = 0
    /\ resolved = FALSE
    /\ result = NoResult
    /\ hierarchy = NoHierarchy

Init == text \in Texts /\ Constructed

\* initialize(), up to the return of the promise: nothing to do once
\* initialized, otherwise a dictionary build is started.
initialize ==
    /\ pending' = IF initialized THEN pending ELSE pending + 1
    /\ builds' = IF initialized THEN builds ELSE countStarted(builds)
    /\ UNCHANGED <<text, tokenizer, initialized, resolved, result, hierarchy>>

Initialize ==
    /\ pending < MaxBuilds
    /\ builds.started < MaxStarts
    /\ initialize
    /\ UNCHANGED app

\* Variant: the callback marks the parser initialized before it looks at err.
BuildFailed_marksInitialized ==
    /\ pending > 0
    /\ pending' = pending - 1
    /\ initialized' = TRUE
    /\ UNCHANGED <<text, tokenizer, resolved, result, hierarchy, builds, app>>

\* The build callback with err set: the promise is rejected.
BuildFailed ==
    /\ pending > 0
    /\ pending' = pending - 1
    /\ UNCHANGED <<text, tokenizer, initialized, resolved, result, hierarchy, builds, app>>

\* The build callback with a tokenizer: the promise is resolved.
BuildSucceeded ==
    /\ pending > 0
    /\ pending' = pending - 1
    /\ tokenizer' = "tokenizer"
    /\ initialized' = TRUE
    /\ resolved' = TRUE
    /\ builds' = countAssigned(builds)
    /\ UNCHANGED <<text, result, hierarchy, app>>

\* Variant: the guard is missing.
notReady_unchecked == FALSE

\* The guard of parse.
notReady == ~initialized \/ tokenizer = "null"

\* Variant: a successful parse drops the tokenizer it used.
Parse_consumes ==
    /\ result' = IF notReady THEN NotInitializedError
                 ELSE parseResult(tokenize(text))
    /\ tokenizer' = IF notReady THEN tokenizer ELSE "null"
    /\ UNCHANGED <<text, initialized, pending, resolved, hierarchy, builds, app>>

\* parse(text)
Parse ==
    /\ result' = IF notReady THEN NotInitializedError
                 ELSE parseResult(tokenize(text))
    /\ UNCHANGED <<text, tokenizer, initialized, pending, resolved, hierarchy, builds, app>>

Next == Initialize \/ BuildFailed \/ BuildSucceeded \/ Parse

Spec == Init /\ [][Next]_vars

\* A sentence of the scenario form handed to the same parser.
ScenarioInit == text \in ScenarioTexts /\ Constructed

ScenarioSpec == ScenarioInit /\ [][Next]_vars

\* A parser whose builds are counted, with a sentence NOUN+ ha VERB+.
LifecycleTexts == {n \o <<Ha>> \o v : n \in NounRuns, v \in VerbRuns}

LifecycleInit ==
    /\ text \in LifecycleTexts
    /\ builds = Counted
    /\ app = AppNotStarted
    /\ tokenizer = "null"
    /\ initialized = FALSE
    /\ pending = 0
    /\ resolved = FALSE
    /\ result = NoResult
    /\ hierarchy = NoHierarchy

LifecycleSpec == LifecycleInit /\ [][Next]_vars

\* A sentence built from phrases handed to the same parser.
RuleInit == text \in RuleTexts /\ Constructed

RuleSpec == RuleInit /\ [][Next]_vars

\* parse has returned a result.
Ok == result.status = "ok"

\* visualize(parseResult, chartTypeParam), called by the application with
\* the result parse returned: the placeholder for an empty bunsetsu list,
\* buildHierarchy for the tree and sunburst charts (tree is the default),
\* no hierarchy for the force and sankey charts.
ChartTypes == {"tree", "force", "sankey", "sunburst"}

\* The hierarchy after visualize(parseResult, chartTypeParam); parsed is its
\* first argument.
visualize(parsed, chartTypeParam) ==
    IF Len(parsed.bunsetsu) = 0 THEN [status |-> "placeholder"]
    ELSE IF chartTypeParam \in {"force", "sankey"} THEN hierarchy
    ELSE builtHierarchy(parsed.bunsetsu, parsed.dependencies)

Visualize ==
    /\ Ok
    /\ \E chartTypeParam \in ChartTypes :
          hierarchy' = visualize(result, chartTypeParam)
    /\ UNCHANGED <<text, tokenizer, initialized, pending, resolved, result, builds, app>>

VisualizeSpec == Init /\ [][Next \/ Visualize]_vars

\* buildHierarchy called on its own.
HierarchyInit ==
    /\ builds = NotCounted
    /\ app = AppNotStarted
    /\ text = <<>>
    /\ tokenizer = "null"
    /\ initialized = FALSE
    /\ pending = 0
    /\ resolved = FALSE
    /\ result = NoResult
    /\ hierarchy \in {h \in HierarchyArgs :
                         \A k \in 1..Len(h.dependencies) :
                             /\ h.dependencies[k].from < Len(h.bunsetsu)
                             /\ h.dependencies[k].to < Len(h.bunsetsu)}

CallBuildHierarchy ==
    /\ hierarchy.status = "args"
    /\ hierarchy' = builtHierarchy(hierarchy.bunsetsu, hierarchy.dependencies)
    /\ UNCHANGED <<text, tokenizer, initialized, pending, resolved, result, builds, app>>

HierarchySpec == HierarchyInit /\ [][CallBuildHierarchy]_vars

\* findHead called on its own, on the tokens of a non-empty text.
CallFindHead ==
    /\ text # <<>>
    /\ result' = [status |-> "findHead",
                  tokens |-> tokenize(text),
                  head   |-> findHead(tokenize(text))]
    /\ UNCHANGED <<text, tokenizer, initialized, pending, resolved, hierarchy, builds, app>>

HeadSpec == Init /\ [][CallFindHead]_vars

\* groupIntoBunsetsu called on its own with the tokens of the text.
SegmentInit == text \in PosTexts /\ Constructed

CallGroupIntoBunsetsu ==
    /\ result' = [status   |-> "groupIntoBunsetsu",
                  tokens   |-> tokenize(text),
                  bunsetsu |-> groupIntoBunsetsu(tokenize(text))]
    /\ UNCHANGED <<text, tokenizer, initialized, pending, resolved, hierarchy, builds, app>>

SegmentSpec == SegmentInit /\ [][CallGroupIntoBunsetsu]_vars

(***************************************************************************)
(* The application (src/app.js)                                            *)
(***************************************************************************)
\* sampleSentences, and what a user types into inputText, as morpheme
\* sequences; the empty sequence is a value that trim() leaves empty.
SampleTexts ==
    {<<Neko, Ga, Hana, Wo, Miru, Ta, Maru>>, <<Utsukushii, Hana, Wo, Miru, Maru>>}
TypedTexts == {<<>>, <<Neko>>, <<Neko, Ha, Miru>>}

AppInit == text = <<>> /\ Constructed

\* initializeApp up to its await: showLoading(true), parser.initialize().
InitializeApp ==
    /\ app.phase = "not started"
    /\ initialize
    /\ app' = [app EXCEPT !.phase = "initializing", !.overlay = TRUE]

\* initializeApp after the promise was resolved: setupEventListeners, then
\* the finally block.
InitResolved ==
    /\ app.phase = "initializing"
    /\ pending = 0
    /\ resolved
    /\ app' = [app EXCEPT !.phase = "ready", !.listeners = TRUE, !.overlay = FALSE]
    /\ UNCHANGED <<text, tokenizer, initialized, pending, resolved, result,
                   hierarchy, builds>>

\* Variant: the listeners are set up in the finally block.
InitRejected_registers ==
    /\ app.phase = "initializing"
    /\ pending = 0
    /\ ~resolved
    /\ app' = [app EXCEPT !.phase = "failed", !.listeners = TRUE,
                          !.overlay = FALSE, !.last = "alert"]
    /\ UNCHANGED <<text, tokenizer, initialized, pending, resolved, result,
                   hierarchy, builds>>

\* initializeApp after the promise was rejected: the catch block, then the
\* finally block.
InitRejected ==
    /\ app.phase = "initializing"
    /\ pending = 0
    /\ ~resolved
    /\ app' = [app EXCEPT !.phase = "failed", !.overlay = FALSE, !.last = "alert"]
    /\ UNCHANGED <<text, tokenizer, initialized, pending, resolved, result,
                   hierarchy, builds>>

\* The user edits inputText.
TypeText ==
    /\ text' \in TypedTexts \ {text}
    /\ UNCHANGED <<tokenizer, initialized, pending, resolved, result,
                   hierarchy, builds, app>>

handleSample ==
    /\ app.listeners
    /\ text' \in SampleTexts
    /\ UNCHANGED <<tokenizer, initialized, pending, resolved, result,
                   hierarchy, builds, app>>

handleClear ==
    /\ app.listeners
    /\ text' = <<>>
    /\ UNCHANGED <<tokenizer, initialized, pending, resolved, result,
                   hierarchy, builds, app>>

\* handleAnalyze up to its await (click on analyzeBtn, or Ctrl+Enter in
\* inputText): an alert for an empty text, otherwise showLoading(true) and
\* a timer; the invocation keeps the text it read.
handleAnalyze ==
    /\ app.listeners
    /\ Len(app.analyses) < MaxAnalyses
    /\ app' = IF text = <<>>
              THEN [app EXCEPT !.last = "alert"]
              ELSE [app EXCEPT !.overlay = TRUE, !.analyses = Append(@, text)]
    /\ UNCHANGED <<text, tokenizer, initialized, pending, resolved, result,
                   hierarchy, builds>>

\* Variant: showLoading(false) is the last statement of the try block.
AnalyzeResume_noFinally ==
    /\ app.analyses # <<>>
    /\ LET outcome == IF notReady THEN NotInitializedError
                      ELSE parseResult(tokenize(Head(app.analyses)))
           parsed  == outcome.status = "ok"
       IN  /\ result' = outcome
           /\ \E threw \in BOOLEAN :
                 LET shown == parsed /\ ~threw
                 IN  /\ hierarchy' \in
                            IF shown THEN {visualize(outcome, app.chartType)}
                            ELSE IF parsed
                            THEN {hierarchy, visualize(outcome, app.chartType)}
                            ELSE {hierarchy}
                     /\ app' = [app EXCEPT
                            !.analyses = Tail(@),
                            !.currentParseResult = IF parsed THEN outcome ELSE @,
                            !.exportButtons = IF shown THEN "flex" ELSE @,
                            !.chartSelector = IF shown THEN "flex" ELSE @,
                            !.overlay = IF shown THEN FALSE ELSE @,
                            !.last = IF shown THEN "visualize" ELSE "alert"]
    /\ UNCHANGED <<text, tokenizer, initialized, pending, resolved, builds>>

\* handleAnalyze after its timer, the oldest timer first: parser.parse,
\* visualizer.visualize (which may throw, before or after it has built the
\* hierarchy), the export buttons and the chart selector shown; the catch
\* block for an exception; the finally block.
AnalyzeResume ==
    /\ app.analyses # <<>>
    /\ LET outcome == IF notReady THEN NotInitializedError
                      ELSE parseResult(tokenize(Head(app.analyses)))
           parsed  == outcome.status = "ok"
       IN  /\ result' = outcome
           /\ \E threw \in BOOLEAN :
                 LET shown == parsed /\ ~threw
                 IN  /\ hierarchy' \in
                            IF shown THEN {visualize(outcome, app.chartType)}
                            ELSE IF parsed
                            THEN {hierarchy, visualize(outcome, app.chartType)}
                            ELSE {hierarchy}
                     /\ app' = [app EXCEPT
                            !.analyses = Tail(@),
                            !.currentParseResult = IF parsed THEN outcome ELSE @,
                            !.exportButtons = IF shown THEN "flex" ELSE @,
                            !.chartSelector = IF shown THEN "flex" ELSE @,
                            !.overlay = FALSE,
                            !.last = IF shown THEN "visualize" ELSE "alert"]
    /\ UNCHANGED <<text, tokenizer, initialized, pending, resolved, builds>>

\* The user picks another chart type: handleChartTypeChange.
handleChartTypeChange ==
    /\ app.listeners
    /\ \E v \in ChartTypes \ {app.chartType} :
          IF app.currentParseResult = NullResult
          THEN /\ app' = [app EXCEPT !.chartType = v, !.last = "none"]
               /\ hierarchy' = hierarchy
          ELSE /\ app' = [app EXCEPT !.chartType = v, !.last = "visualize"]
               /\ hierarchy' = visualize(app.currentParseResult, v)
    /\ UNCHANGED <<text, tokenizer, initialized, pending, resolved, result, builds>>

\* Variant: the guard on currentParseResult is missing.
handleDownloadData_unguarded ==
    /\ app.listeners
    /\ app' = [app EXCEPT !.last = "download json"]
    /\ UNCHANGED <<text, tokenizer, initialized, pending, resolved, result,
                   hierarchy, builds>>

handleDownloadData ==
    /\ app.listeners
    /\ app' = [app EXCEPT !.last = IF app.currentParseResult = NullResult
                                   THEN "alert" ELSE "download json"]
    /\ UNCHANGED <<text, tokenizer, initialized, pending, resolved, result,
                   hierarchy, builds>>

handleDownloadGexf ==
    /\ app.listeners
    /\ app' = [app EXCEPT !.last = IF app.currentParseResult = NullResult
                                   THEN "alert" ELSE "download gexf"]
    /\ UNCHANGED <<text, tokenizer, initialized, pending, resolved, result,
                   hierarchy, builds>>

AppNext ==
    \/ InitializeApp
    \/ BuildFailed
    \/ BuildSucceeded
    \/ InitResolved
    \/ InitRejected
    \/ TypeText
    \/ handleSample
    \/ handleClear
    \/ handleAnalyze
    \/ AnalyzeResume
    \/ handleChartTypeChange
    \/ handleDownloadData
    \/ handleDownloadGexf

AppSpec == AppInit /\ [][AppNext]_vars

(***************************************************************************)
(* Properties                                                              *)
(***************************************************************************)
\* Number of bunsetsu of the last parse result.
N == Len(result.bunsetsu)

RECURSIVE Flatten(_)
Flatten(ss) == IF ss = <<>> THEN <<>> ELSE Head(ss) \o Flatten(Tail(ss))

\* The rule that produced the edge leaving bunsetsu i of the result.
RuleOf(i) == targetRule(result.bunsetsu[i + 1], i, result.bunsetsu)

\* C1: for a non-empty morpheme sequence the token runs of the returned
\* bunsetsu, concatenated in list order, are exactly the input sequence, and
\* every input token object lies in exactly one bunsetsu.
C1_Coverage ==
    (Ok /\ result.tokens # <<>>) =>
        /\ result.tokens = tokenize(text)
        /\ Flatten([k \in 1..N |-> result.bunsetsu[k].tokens]) = result.tokens
        /\ \A r \in 1..Len(result.tokens) :
              Cardinality({k \in 1..N :
                  \E p \in 1..Len(result.bunsetsu[k].tokens) :
                      result.bunsetsu[k].tokens[p].ref = result.tokens[r].ref}) = 1

C1_Witness ==
    /\ Ok
    /\ N >= 2
    /\ \E k \in 1..N : Len(result.bunsetsu[k].tokens) >= 2
    /\ result.tokens[Len(result.tokens)].pos # "kigou"

\* C2: N bunsetsu give exactly max(0, N-1) edges and the k-th edge has
\* from = k.
C2_EdgeCount ==
    Ok =>
        /\ Len(result.dependencies) = (IF N >= 1 THEN N - 1 ELSE 0)
        /\ \A k \in 0..(Len(result.dependencies) - 1) :
              result.dependencies[k + 1].from = k

C2_Witness == Ok /\ N >= 3 /\ Len(result.dependencies) = N - 1

\* C3: every edge ends at a valid bunsetsu index, 0..N-1.
C3_RangeSafety ==
    Ok => \A k \in 1..Len(result.dependencies) :
              result.dependencies[k].to \in 0..(N - 1)

\* Both fallbacks decided an edge: the last bunsetsu for a case particle with
\* no verb behind it, and i+1 for the particle no with no noun behind it.
C3_Witness ==
    /\ Ok
    /\ \E k \in 1..Len(result.dependencies) :
          LET e == result.dependencies[k]
          IN  /\ RuleOf(e.from) = "case"
              /\ result.bunsetsu[e.to + 1].head.pos # "doushi"
              /\ e.to = N - 1
              /\ e.to # e.from + 1
    /\ \E k \in 1..Len(result.dependencies) :
          LET e == result.dependencies[k]
          IN  /\ RuleOf(e.from) = "no"
              /\ result.bunsetsu[e.to + 1].head.pos # "meishi"
              /\ e.to = e.from + 1

\* C4: with two or more bunsetsu every edge points strictly forward, so no
\* edge is a self-loop and no chain of edges returns to its start.
C4_Forward ==
    (Ok /\ N >= 2) =>
        \A k \in 1..Len(result.dependencies) :
            result.dependencies[k].from < result.dependencies[k].to

\* A predicate-headed source whose edge was found by the predicate scan, next
\* to an edge that skips over a bunsetsu.
C4_Witness ==
    /\ Ok
    /\ N >= 3
    /\ \E k \in 1..Len(result.dependencies) :
          LET e == result.dependencies[k]
          IN  /\ RuleOf(e.from) \in {"connector", "verb", "adverb"}
              /\ result.bunsetsu[e.from + 1].head.pos \in {"doushi", "keiyoushi"}
    /\ \E k \in 1..Len(result.dependencies) :
          result.dependencies[k].to > result.dependencies[k].from + 1

\* C6: a parse call made before an initialize() promise was resolved (never
\* called, still building, build failed) throws 'Parser not initialized',
\* does not call the tokenizer and leaves initialized and tokenizer alone.
C6_NotInitialized ==
    [][(Parse /\ ~resolved) =>
          /\ result'.status = "Parser not initialized"
          /\ ~result'.tokenized
          /\ initialized' = initialized
          /\ tokenizer' = tokenizer]_vars

\* parse threw while a build was still in flight.
C6_Witness ==
    /\ result.status = "Parser not initialized"
    /\ ~initialized
    /\ tokenizer = "null"
    /\ pending > 0

\* C7: a parse of an empty morpheme sequence ends without an error, with an
\* empty bunsetsu list and an empty edge list.
C7_EmptyInput ==
    (text = <<>> /\ result.status \notin {"none", "Parser not initialized"}) =>
        /\ Ok
        /\ result.bunsetsu = <<>>
        /\ result.dependencies = <<>>

C7_Witness == text = <<>> /\ Ok /\ result.tokens = <<>>

Score(pos) ==
    IF pos = "doushi" THEN 3
    ELSE IF pos = "keiyoushi" THEN 2
    ELSE IF pos = "meishi" THEN 1
    ELSE 0

\* C8: findHead returns the earliest token of the run whose score (verb 3,
\* adjective 2, noun 1, other 0) is the greatest of the run: the verb of a
\* run with a noun and a verb, the first token of a run with no noun, verb
\* or adjective.
C8_HeadPriority ==
    result.status = "findHead" =>
        LET run   == result.tokens
            best  == CHOOSE b \in 0..3 :
                        /\ \E k \in 1..Len(run) : Score(run[k].pos) = b
                        /\ \A k \in 1..Len(run) : Score(run[k].pos) <= b
            first == CHOOSE k \in 1..Len(run) :
                        /\ Score(run[k].pos) = best
                        /\ \A j \in 1..(k - 1) : Score(run[j].pos) # best
        IN  /\ result.head = run[first]
            /\ (\E k \in 1..Len(run) : run[k].pos = "doushi") =>
                  result.head.pos = "doushi"
            /\ (\A k \in 1..Len(run) : Score(run[k].pos) = 0) =>
                  result.head = run[1]

\* A noun before two verbs: the head is the first verb, not the first token
\* and not the last token of its score.
C8_Witness ==
    /\ result.status = "findHead"
    /\ result.tokens[1].pos = "meishi"
    /\ result.head.pos = "doushi"
    /\ \E k \in 1..Len(result.tokens) :
          /\ result.tokens[k].pos = "doushi"
          /\ result.tokens[k].ref > result.head.ref

\* C9: the bunsetsu at position k has id k, a non-empty token run, the
\* concatenation of its tokens' surfaces as surface and one of its own
\* tokens as head; a non-empty input gives a non-empty list.
C9_BunsetsuShape ==
    Ok =>
        /\ \A k \in 1..N :
              LET b == result.bunsetsu[k]
              IN  /\ b.id = k - 1
                  /\ Len(b.tokens) > 0
                  /\ b.surface = Flatten([p \in 1..Len(b.tokens) |-> b.tokens[p].surface_form])
                  /\ \E p \in 1..Len(b.tokens) : b.tokens[p] = b.head
        /\ (result.tokens # <<>> => N > 0)

C9_Witness ==
    /\ Ok
    /\ N >= 2
    /\ \E k \in 1..N :
          /\ Len(result.bunsetsu[k].tokens) >= 2
          /\ result.bunsetsu[k].head # result.bunsetsu[k].tokens[1]

\* C10: a sentence NOUN+ ha NOUN+ ni NOUN+ wo VERB+ maru gives four
\* bunsetsu, the edges 0->3 "ha", 1->3 "ni", 2->3 "wo" and no edge leaving
\* the verb bunsetsu.
C10_ScenarioA ==
    Ok =>
        /\ N = 4
        /\ result.dependencies =
              << [from |-> 0, to |-> 3, label |-> <<"ha">>],
                 [from |-> 1, to |-> 3, label |-> <<"ni">>],
                 [from |-> 2, to |-> 3, label |-> <<"wo">>] >>
        /\ result.bunsetsu[4].head.pos = "doushi"
        /\ \A k \in 1..Len(result.dependencies) : result.dependencies[k].from # 3

C10_Witness ==
    /\ Ok
    /\ text \in ScenarioTexts
    /\ Len(text) > 8
    /\ N = 4
    /\ Len(result.dependencies) = 3

\* Last token, head tag and edge target of bunsetsu i of the last result.
LastOf(i) == result.bunsetsu[i + 1].tokens[Len(result.bunsetsu[i + 1].tokens)]
HeadPos(j) == result.bunsetsu[j + 1].head.pos
To(i) == result.dependencies[i + 1].to

\* The nearest bunsetsu behind i whose head tag is in P, else the fallback.
NearestAfter(i, P, fallback) ==
    IF \E j \in (i + 1)..(N - 1) : HeadPos(j) \in P
    THEN CHOOSE j \in (i + 1)..(N - 1) :
            /\ HeadPos(j) \in P
            /\ \A m \in (i + 1)..(j - 1) : HeadPos(m) \notin P
    ELSE fallback

EndsInParticle(i, surfaces) ==
    LastOf(i).pos = "joshi" /\ LastOf(i).surface_form \in surfaces

\* C11: a non-final bunsetsu ending in the particle no targets the nearest
\* following noun-headed bunsetsu, and exactly i+1 when there is none.
C11_PossessiveTarget ==
    Ok => \A i \in 0..(N - 2) :
              EndsInParticle(i, {<<"no">>}) =>
                  To(i) = NearestAfter(i, {"meishi"}, i + 1)

\* No noun behind a bunsetsu ending in no: i+1 is taken, not the last one.
C11_Witness ==
    /\ Ok
    /\ \E i \in 0..(N - 3) :
          /\ EndsInParticle(i, {<<"no">>})
          /\ \A j \in (i + 1)..(N - 1) : HeadPos(j) # "meishi"
          /\ To(i) = i + 1

\* C12: the label of an edge is the surface of the source's last morpheme
\* when that morpheme is a particle and the empty string otherwise, and
\* getDependencyLabel gives that label for the source with any target.
C12_Label ==
    Ok => \A k \in 1..Len(result.dependencies) :
              LET e == result.dependencies[k]
              IN  /\ e.label = (IF LastOf(e.from).pos = "joshi"
                                THEN LastOf(e.from).surface_form
                                ELSE <<>>)
                  /\ \A t \in 1..N :
                        getDependencyLabel(result.bunsetsu[e.from + 1],
                                           result.bunsetsu[t]) = e.label

\* An edge labelled with a particle whose target does not end in a particle,
\* next to an unlabelled edge whose target does.
C12_Witness ==
    /\ Ok
    /\ \E k \in 1..Len(result.dependencies) :
          LET e == result.dependencies[k]
          IN  /\ e.label # <<>>
              /\ LastOf(e.to).pos # "joshi"
    /\ \E k \in 1..Len(result.dependencies) :
          LET e == result.dependencies[k]
          IN  /\ e.label = <<>>
              /\ LastOf(e.to).pos = "joshi"

\* C13: a step that produces a parse outcome changes neither initialized nor
\* tokenizer nor the morphemes of the text, and the tokens it returns are the
\* tokenizer's; once a parse has succeeded, every later call on the same
\* text, whatever ran in between, returns the same result.
C13_ParseFrame ==
    [][/\ result' # result =>
             /\ initialized' = initialized
             /\ tokenizer' = tokenizer
             /\ text' = text
             /\ result'.status = "ok" => result'.tokens = tokenize(text)
       /\ Ok => result' = result]_vars

\* A parse has succeeded while another build callback is still to come.
C13_Witness == Ok /\ N >= 2 /\ initialized /\ pending > 0

Built == hierarchy.status = "built"

\* Ids of the bunsetsu handed to buildHierarchy that are the from end, or
\* the to end, of no edge handed to it.
NeverFrom ==
    {i \in 0..(Len(hierarchy.bunsetsu) - 1) :
        \A k \in 1..Len(hierarchy.dependencies) : hierarchy.dependencies[k].from # i}
NeverTo ==
    {i \in 0..(Len(hierarchy.bunsetsu) - 1) :
        \A k \in 1..Len(hierarchy.dependencies) : hierarchy.dependencies[k].to # i}

\* s lists exactly the members of S, in ascending order.
ListsAscending(s, S) ==
    /\ {s[k] : k \in 1..Len(s)} = S
    /\ \A k \in 1..(Len(s) - 1) : s[k] < s[k + 1]

\* C14 as stated: the roots are the bunsetsu that are the to end of no edge.
C14_RootsNeverTo ==
    Built =>
        /\ Cardinality(NeverTo) > 1 =>
              /\ hierarchy.root.id = -1
              /\ ListsAscending(hierarchy.root.children, NeverTo)
        /\ Cardinality(NeverTo) = 1 =>
              hierarchy.root.id \in NeverTo
        /\ (Cardinality(NeverTo) = 0 /\ Len(hierarchy.bunsetsu) > 0) =>
              hierarchy.root.id = 0

\* C14, amended: the roots are the bunsetsu that are the from end of no edge.
\* More than one root gives the virtual root (id -1) with the roots as
\* children, one root gives that root's node, no root gives the node of the
\* first bunsetsu, which is undefined for an empty list.
C14_RootsNeverFrom ==
    Built =>
        /\ Cardinality(NeverFrom) > 1 =>
              /\ hierarchy.root.defined
              /\ hierarchy.root.id = -1
              /\ hierarchy.root.bunsetsu = [surface |-> <<"R", "O", "O", "T">>]
              /\ ListsAscending(hierarchy.root.children, NeverFrom)
        /\ Cardinality(NeverFrom) = 1 =>
              \E r \in NeverFrom : hierarchy.root = hierarchy.nodes[r]
        /\ Cardinality(NeverFrom) = 0 =>
              IF Len(hierarchy.bunsetsu) = 0
              THEN ~hierarchy.root.defined
              ELSE hierarchy.root = hierarchy.nodes[0]

\* A virtual root one of whose children is the to end of an edge.
C14_Witness ==
    /\ Built
    /\ hierarchy.root.defined
    /\ hierarchy.root.id = -1
    /\ \E c \in 1..Len(hierarchy.root.children) :
          hierarchy.root.children[c] \notin NeverTo

\* The roots buildHierarchy finds in the parse result of morpheme sequence t.
RootsOfParse(t) ==
    LET r == parseResult(tokenize(t))
    IN  rootsFrom(r.bunsetsu, r.dependencies, 0)

\* C15 as stated: the parser that returns results returns, for some
\* morpheme sequence, a result with more than one root, and for some
\* morpheme sequence a result with no root.
C15_BothFallbacks ==
    Ok =>
        /\ \E t \in Texts : Len(RootsOfParse(t)) > 1
        /\ \E t \in Texts : Len(RootsOfParse(t)) = 0

\* C15, amended: a parse result with at least one bunsetsu has exactly one
\* root, so a hierarchy built from the parser's output is never the virtual
\* root and never the no-root fallback; only the empty parse result has no
\* root, and visualize answers it with the placeholder, without a call of
\* buildHierarchy.
C15_OneRoot ==
    /\ Ok => Len(rootsFrom(result.bunsetsu, result.dependencies, 0))
                 = (IF N = 0 THEN 0 ELSE 1)
    /\ Built =>
          /\ Ok
          /\ N > 0
          /\ hierarchy.bunsetsu = result.bunsetsu
          /\ hierarchy.dependencies = result.dependencies
          /\ Cardinality(NeverFrom) = 1
          /\ hierarchy.root.defined
          /\ hierarchy.root.id # -1
    /\ hierarchy.status = "placeholder" => (Ok /\ N = 0)

\* A hierarchy built from a parse result in which two bunsetsu are the to
\* end of no edge.
C15_Witness ==
    /\ Built
    /\ Len(hierarchy.bunsetsu) >= 3
    /\ Cardinality(NeverTo) >= 2

Segmented == result.status = "groupIntoBunsetsu"

\* Positions (0-based) in the token array of the last token of each bunsetsu.
Boundaries ==
    {result.bunsetsu[j].tokens[Len(result.bunsetsu[j].tokens)].ref :
        j \in 1..Len(result.bunsetsu)}

\* C16: groupIntoBunsetsu cuts after a non-final token k exactly when token
\* k is a symbol, or token k is a particle, auxiliary verb or conjunction and
\* token k+1 is a noun, verb, adjective, adverb, pre-noun adjectival or
\* interjection; it always cuts after the last token, and the bunsetsu are
\* the pieces of the token array between the cuts.
C16_Boundaries ==
    Segmented =>
        LET toks == result.tokens
            n    == Len(toks)
        IN  /\ Flatten([j \in 1..Len(result.bunsetsu) |-> result.bunsetsu[j].tokens]) = toks
            /\ \A j \in 1..Len(result.bunsetsu) : result.bunsetsu[j].tokens # <<>>
            /\ n > 0 => (n - 1) \in Boundaries
            /\ \A k \in 0..(n - 2) :
                  k \in Boundaries <=>
                      \/ toks[k + 1].pos = "kigou"
                      \/ /\ toks[k + 1].pos \in {"joshi", "jodoushi", "setsuzokushi"}
                         /\ toks[k + 2].pos \in {"meishi", "doushi", "keiyoushi",
                                                 "fukushi", "rentaishi", "kandoushi"}

\* A cut between a conjunction and an interjection, and no cut between an
\* auxiliary verb and a prefix.
C16_Witness ==
    /\ Segmented
    /\ \E k \in 0..(Len(result.tokens) - 2) :
          /\ result.tokens[k + 1].pos = "setsuzokushi"
          /\ result.tokens[k + 2].pos = "kandoushi"
          /\ k \in Boundaries
    /\ \E k \in 0..(Len(result.tokens) - 2) :
          /\ result.tokens[k + 1].pos = "jodoushi"
          /\ result.tokens[k + 2].pos = "settoushi"
          /\ k \notin Boundaries

\* Bunsetsu i ends in an auxiliary verb whose base form is in bases.
EndsInAuxiliary(i, bases) ==
    LastOf(i).pos = "jodoushi" /\ LastOf(i).basic_form \in bases

\* The particles and auxiliary verbs the rules name.
ConnectorSurfaces ==
    {<<"te">>, <<"de">>, <<"ba">>, <<"to">>, <<"te", "mo">>, <<"de", "mo">>,
     <<"ka", "ra">>, <<"no", "de">>, <<"no", "ni">>, <<"ke", "do">>, <<"ga">>}
ConnectorBases == {<<"ta">>, <<"da">>, <<"de", "su">>, <<"ma", "su">>}
CaseSurfaces ==
    {<<"ha">>, <<"ga">>, <<"wo">>, <<"ni">>, <<"he">>, <<"de">>,
     <<"ka", "ra">>, <<"ma", "de">>, <<"yo", "ri">>, <<"to">>}

\* C17: a non-final bunsetsu ending in a clause-connecting particle or in an
\* auxiliary verb whose base form is ta, da, desu or masu targets the nearest
\* following bunsetsu headed by a verb or adjective, and the last bunsetsu
\* when there is none.
C17_ConnectorTarget ==
    Ok => \A i \in 0..(N - 2) :
              (EndsInParticle(i, ConnectorSurfaces) \/ EndsInAuxiliary(i, ConnectorBases))
                  => To(i) = NearestAfter(i, {"doushi", "keiyoushi"}, N - 1)

\* A bunsetsu ending in te, two or more bunsetsu behind it, none of them a
\* predicate: it targets the final one.
C17_Witness ==
    /\ Ok
    /\ \E i \in 0..(N - 3) :
          /\ EndsInParticle(i, {<<"te">>})
          /\ \A j \in (i + 1)..(N - 1) : HeadPos(j) \notin {"doushi", "keiyoushi"}
          /\ To(i) = N - 1

\* C18 as stated: a non-final bunsetsu ending in any of the ten case
\* particles targets the nearest following verb-headed bunsetsu, else the
\* last bunsetsu.
C18_CaseTarget ==
    Ok => \A i \in 0..(N - 2) :
              EndsInParticle(i, CaseSurfaces)
                  => To(i) = NearestAfter(i, {"doushi"}, N - 1)

\* C18, amended: a non-final bunsetsu ending in a case particle that is not
\* also a clause connector (ha, wo, ni, he, made, yori) targets the nearest
\* following verb-headed bunsetsu, else the last bunsetsu.
C18_CaseOnlyTarget ==
    Ok => \A i \in 0..(N - 2) :
              EndsInParticle(i, {<<"ha">>, <<"wo">>, <<"ni">>, <<"he">>,
                                 <<"ma", "de">>, <<"yo", "ri">>})
                  => To(i) = NearestAfter(i, {"doushi"}, N - 1)

\* A bunsetsu ending in wo whose target is a verb-headed bunsetsu behind an
\* adjective-headed one.
C18_Witness ==
    /\ Ok
    /\ \E i \in 0..(N - 3) :
          /\ EndsInParticle(i, {<<"wo">>})
          /\ HeadPos(To(i)) = "doushi"
          /\ \E j \in (i + 1)..(To(i) - 1) : HeadPos(j) = "keiyoushi"

\* C19: for a non-final bunsetsu ending in a particle that is in both lists
\* (ga, de, kara, to) the clause-connector rule decides: the target is the
\* nearest following bunsetsu headed by a verb or an adjective, else the
\* last bunsetsu, so an adjective-headed bunsetsu in front of the first
\* verb-headed one is the target.
C19_ConnectorFirst ==
    Ok => \A i \in 0..(N - 2) :
              EndsInParticle(i, ConnectorSurfaces \cap CaseSurfaces)
                  => /\ LastOf(i).surface_form \in {<<"ga">>, <<"de">>, <<"ka", "ra">>, <<"to">>}
                     /\ RuleOf(i) = "connector"
                     /\ To(i) = NearestAfter(i, {"doushi", "keiyoushi"}, N - 1)
                     /\ \A j \in (i + 1)..(N - 1) :
                           (/\ HeadPos(j) = "keiyoushi"
                            /\ \A m \in (i + 1)..(j - 1) :
                                  HeadPos(m) \notin {"doushi", "keiyoushi"})
                               => To(i) = j

\* A bunsetsu ending in ga whose target is adjective-headed, with a
\* verb-headed bunsetsu further behind.
C19_Witness ==
    /\ Ok
    /\ \E i \in 0..(N - 3) :
          /\ EndsInParticle(i, {<<"ga">>})
          /\ HeadPos(To(i)) = "keiyoushi"
          /\ \E m \in (To(i) + 1)..(N - 1) : HeadPos(m) = "doushi"
          /\ \A m \in (i + 1)..(To(i) - 1) : HeadPos(m) # "doushi"

\* Neither the clause-connector rule nor a particle rule (case particle, no)
\* applies to bunsetsu i.
NoEndingRule(i) ==
    /\ ~EndsInParticle(i, ConnectorSurfaces)
    /\ ~EndsInAuxiliary(i, ConnectorBases)
    /\ ~EndsInParticle(i, CaseSurfaces \cup {<<"no">>})

\* C20: a non-final bunsetsu to which neither the clause-connector nor a
\* particle rule applies targets, when its head is an adverb, the nearest
\* following bunsetsu headed by a verb or adjective, else the last one, and
\* when its head is a pre-noun adjectival, the nearest following noun-headed
\* bunsetsu, else i+1.
C20_AdverbAdnominal ==
    Ok => \A i \in 0..(N - 2) :
              NoEndingRule(i) =>
                  /\ HeadPos(i) = "fukushi"
                        => To(i) = NearestAfter(i, {"doushi", "keiyoushi"}, N - 1)
                  /\ HeadPos(i) = "rentaishi"
                        => To(i) = NearestAfter(i, {"meishi"}, i + 1)

\* A pre-noun adjectival whose target noun lies behind another bunsetsu,
\* and an adverb whose target predicate lies behind a noun.
C20_Witness ==
    /\ Ok
    /\ \E i \in 0..(N - 2) :
          /\ NoEndingRule(i)
          /\ HeadPos(i) = "rentaishi"
          /\ To(i) > i + 1
          /\ HeadPos(To(i)) = "meishi"
    /\ \E i \in 0..(N - 2) :
          /\ NoEndingRule(i)
          /\ HeadPos(i) = "fukushi"
          /\ To(i) > i + 1
          /\ HeadPos(To(i)) \in {"doushi", "keiyoushi"}
          /\ HeadPos(i + 1) = "meishi"

\* C21: a non-final noun-headed bunsetsu whose last morpheme is neither a
\* particle nor a clause-connecting auxiliary verb targets the first
\* following bunsetsu headed by a noun or a verb, and i+1 when there is none.
C21_NounTarget ==
    Ok => \A i \in 0..(N - 2) :
              (/\ HeadPos(i) = "meishi"
               /\ LastOf(i).pos # "joshi"
               /\ ~EndsInAuxiliary(i, ConnectorBases))
                  => To(i) = NearestAfter(i, {"meishi", "doushi"}, i + 1)

\* A noun-headed bunsetsu without a closing particle whose target is a
\* verb-headed bunsetsu two or more places behind it.
C21_Witness ==
    /\ Ok
    /\ \E i \in 0..(N - 3) :
          /\ HeadPos(i) = "meishi"
          /\ LastOf(i).pos # "joshi"
          /\ ~EndsInAuxiliary(i, ConnectorBases)
          /\ To(i) > i + 1
          /\ HeadPos(To(i)) = "doushi"

\* The same kind of bunsetsu with no noun and no verb behind it, and two or
\* more bunsetsu behind it: the target is i+1.
C21_FallThrough ==
    /\ Ok
    /\ \E i \in 0..(N - 3) :
          /\ HeadPos(i) = "meishi"
          /\ LastOf(i).pos # "joshi"
          /\ ~EndsInAuxiliary(i, ConnectorBases)
          /\ \A j \in (i + 1)..(N - 1) : HeadPos(j) \notin {"meishi", "doushi"}
          /\ To(i) = i + 1

\* C22: a non-final verb-headed bunsetsu that no earlier rule takes targets,
\* when its head's detail tag is the independent tag, the nearest following
\* predicate (else the last bunsetsu) only if its last surface is te, de,
\* tari or nagara, and i+1 with any other last surface; when the detail tag
\* is another one it targets the nearest following predicate, else the last
\* bunsetsu.
C22_NonFinalVerb ==
    Ok => \A i \in 0..(N - 2) :
              (NoEndingRule(i) /\ HeadPos(i) = "doushi") =>
                  To(i) =
                      IF \/ result.bunsetsu[i + 1].head.pos_detail_1 # "jiritsu"
                         \/ LastOf(i).surface_form \in
                                {<<"te">>, <<"de">>, <<"ta", "ri">>, <<"na", "ga", "ra">>}
                      THEN NearestAfter(i, {"doushi", "keiyoushi"}, N - 1)
                      ELSE i + 1

\* Bunsetsu i meets the condition of none of the rules: no clause-connector
\* or particle rule, a head that is neither adverb nor pre-noun adjectival,
\* not a noun head with a last morpheme other than a particle, and not a
\* verb head with a detail tag other than the independent one or with a
\* continuative ending.
MatchesNoRule(i) ==
    /\ NoEndingRule(i)
    /\ HeadPos(i) \notin {"fukushi", "rentaishi"}
    /\ ~(HeadPos(i) = "meishi" /\ LastOf(i).pos # "joshi")
    /\ ~(/\ HeadPos(i) = "doushi"
         /\ \/ result.bunsetsu[i + 1].head.pos_detail_1 # "jiritsu"
            \/ LastOf(i).surface_form \in
                   {<<"te">>, <<"de">>, <<"ta", "ri">>, <<"na", "ga", "ra">>})

\* C23: a non-final bunsetsu i that meets the condition of none of the rules
\* targets exactly i+1.
C23_Default ==
    Ok => \A i \in 0..(N - 2) : MatchesNoRule(i) => To(i) = i + 1

\* How often node i occurs in the hierarchy below and including node r,
\* down to the given depth; the sum of that over the nodes listed in kids.
RECURSIVE OccursBelow(_, _, _)
RECURSIVE OccursAmong(_, _, _)
OccursBelow(r, i, depth) ==
    IF depth = 0 THEN 0
    ELSE (IF r = i THEN 1 ELSE 0)
         + OccursAmong(hierarchy.nodes[r].children, i, depth - 1)
OccursAmong(kids, i, depth) ==
    IF kids = <<>> THEN 0
    ELSE OccursBelow(Head(kids), i, depth) + OccursAmong(Tail(kids), i, depth)

\* Following the to ends of the edges from bunsetsu i arrives at the last
\* bunsetsu within the given number of steps.
RECURSIVE ReachesLast(_, _)
ReachesLast(i, steps) ==
    \/ i = Len(hierarchy.bunsetsu) - 1
    \/ /\ steps > 0
       /\ \E k \in 1..Len(hierarchy.dependencies) :
             /\ hierarchy.dependencies[k].from = i
             /\ ReachesLast(hierarchy.dependencies[k].to, steps - 1)

\* C24: the hierarchy built from a parse result has the node of the last
\* bunsetsu as its root, never the virtual root, holds every bunsetsu exactly
\* once, and following to from any bunsetsu arrives at the last one.
C24_SingleTree ==
    Built =>
        LET n == Len(hierarchy.bunsetsu)
        IN  /\ n >= 1
            /\ hierarchy.root.defined
            /\ hierarchy.root.id = n - 1
            /\ hierarchy.root = hierarchy.nodes[n - 1]
            /\ \A i \in 0..(n - 1) :
                  /\ OccursBelow(n - 1, i, n + 1) = 1
                  /\ ReachesLast(i, n)

\* A hierarchy of three bunsetsu whose root, the last bunsetsu, has the two
\* others as its children.
C24_Witness ==
    /\ Built
    /\ Len(hierarchy.bunsetsu) = 3
    /\ hierarchy.root.id = 2
    /\ hierarchy.root.children = <<0, 1>>

\* C25: initialized implies a tokenizer; as long as no build callback has
\* delivered a tokenizer (each one reported an error, or is still to come)
\* initialized is false, tokenizer is null, and every parse made so far has
\* thrown 'Parser not initialized'.
C25_InitializedHasTokenizer ==
    /\ initialized => tokenizer # "null"
    /\ (builds.on /\ builds.assigned = 0) =>
          /\ ~initialized
          /\ tokenizer = "null"
          /\ result.status \in {"none", "Parser not initialized"}

\* Two builds were started, both reported an error, and the parse made after
\* them threw.
C25_Witness ==
    /\ builds.on
    /\ builds.started = 2
    /\ builds.assigned = 0
    /\ pending = 0
    /\ ~initialized
    /\ result.status = "Parser not initialized"

\* C26: whatever initialize calls are made on one parser, also a second one
\* before the first build's callback, the build is started at most once and
\* tokenizer is assigned at most once.
C26_BuildOnce ==
    builds.on => (builds.started <= 1 /\ builds.assigned <= 1)

\* C27: the application calls parse only on an initialized parser: the
\* listeners exist only after initialize was resolved, none exists after a
\* failed initialization, and no parse call of the application has thrown
\* 'Parser not initialized'.
C27_ParseOnlyInitialized ==
    /\ app.listeners => (initialized /\ tokenizer # "null" /\ app.phase = "ready")
    /\ app.analyses # <<>> => app.listeners
    /\ app.phase = "failed" => (~app.listeners /\ result = NoResult)
    /\ result.status # "Parser not initialized"

\* The application has parsed a text.
C27_Witness ==
    /\ app.phase = "ready"
    /\ Ok
    /\ N >= 2
    /\ app.currentParseResult = result

\* C28: once initialization has settled and no handleAnalyze invocation is
\* in progress, the loading overlay is inactive.
C28_OverlayOff ==
    (app.phase \in {"ready", "failed"} /\ app.analyses = <<>>) => ~app.overlay

\* An analysis whose visualize call threw has ended: a parse result is kept,
\* the export buttons were never shown, the overlay is inactive.
C28_Witness ==
    /\ app.phase = "ready"
    /\ app.analyses = <<>>
    /\ app.currentParseResult # NullResult
    /\ app.exportButtons = "hidden"
    /\ app.last = "alert"
    /\ ~app.overlay

\* C29: while at least one handleAnalyze invocation is in progress the
\* loading overlay is active.
C29_OverlayOn ==
    app.analyses # <<>> => app.overlay

\* C30: the export buttons and the chart selector are shown only with a
\* parse result in currentParseResult, currentParseResult never returns to
\* null, and handleDownloadData, handleDownloadGexf and handleChartTypeChange
\* run with currentParseResult null download nothing and visualize nothing.
C30_ExportNeedsResult ==
    [][/\ (app'.exportButtons = "flex" \/ app'.chartSelector = "flex")
             => app'.currentParseResult # NullResult
       /\ app.currentParseResult # NullResult
             => app'.currentParseResult # NullResult
       /\ ((handleDownloadData \/ handleDownloadGexf \/ handleChartTypeChange)
             /\ app.currentParseResult = NullResult)
             => /\ hierarchy' = hierarchy
                /\ app'.last \in {"none", "alert"}
                /\ app'.currentParseResult = NullResult]_vars

\* A download was asked for with no parse result: an alert and nothing else.
C30_Witness ==
    /\ app.listeners
    /\ app.currentParseResult = NullResult
    /\ app.last = "alert"
    /\ app.exportButtons = "hidden"
    /\ hierarchy = NoHierarchy
    /\ text # <<>>

====
